---- MODULE Spec2Model ----
(***************************************************************************)
(* TuneBot (src/app/app.py): the per-guild music queue (MusicQueue), the   *)
(* Music cog's command handlers, the play_next task scheduled by the       *)
(* voice client's `after` callback, the Spotify expansion loop and the     *)
(* auto-disconnect handler MusicBot.on_voice_state_update, for one guild.  *)
(*                                                                         *)
(* The handlers are asyncio coroutines: a handler runs without             *)
(* interruption from one await that suspends to the next, so every action  *)
(* below is one such segment.  Awaiting get_queue does not suspend (it     *)
(* has no await inside).  The voice client is the discord.py VoiceClient:  *)
(* play() raises when not connected or when a stream is active, stop()     *)
(* ends the stream and drops the player, and the `after` callback runs     *)
(* when a stream ends, by itself, by stop() or with an error.              *)
(*                                                                         *)
(* In play, the awaits of connect/move_to and of ctx.typing() precede      *)
(* create_source and touch no queue state; they are taken together with    *)
(* the start of the resolution (PlayStart).  The callback runs on the      *)
(* player thread some time after the stream ended; the play_next task it   *)
(* creates runs at any later point (PlayNextTask).                         *)
(*                                                                         *)
(* Next is the whole program.  QueueSpec, ExpandSpec and IdleSpec each     *)
(* run one part of it beside the commands that part interacts with: the    *)
(* playlist loop enqueues through the same lines of play as a plain play   *)
(* command, and the auto-disconnect does to the queue and the voice        *)
(* client what the disconnect command does.                                *)
(***************************************************************************)
EXTENDS Integers, Sequences, FiniteSets, TLC

\* ---- bounds ----
MaxTracks == 3      \* sources ever created by YTDLSource.create_source
MaxExpLen == 3      \* tracks in a Spotify playlist or album
MaxHumans == 1      \* non-bot members in the bot's voice channel
MaxTimers == 2      \* on_voice_state_update handlers asleep at once
MaxTasks == 2       \* play_next tasks created and not yet run

None == 0
Handles == 1..MaxTracks

\* volumes in percent: MusicQueue.volume = 1.0 and YTDLSource(volume=1.0),
\* and the limits of Music.volume
DefaultVolume == 100
MinVolume == 0
MaxVolume == 200
\* the arguments of the volume command that are tried
VolumeInputs == {MinVolume - 1, MaxVolume, MaxVolume + 1}

VARIABLES
  pending,      \* MusicQueue.queue, front first
  current,      \* MusicQueue.current (None or a source)
  loop,         \* MusicQueue.loop
  processing,   \* MusicQueue.processing
  connected,    \* ctx.voice_client is set (the bot is in a voice channel)
  streaming,    \* the source the voice client is playing (is_playing()), or None
  held,         \* ctx.voice_client.source: the source of the voice client's player, or None
  tasks,        \* play_next tasks created by the after callback, oldest first
  resolving,    \* sources whose create_source call is in flight
  nextId,       \* next fresh source
  expPc,        \* process_spotify_url: "idle", "resolving" (in play of a track), "sent" (after its ctx.send)
  expLen,       \* number of tracks of the playlist being processed
  expCur,       \* the source being resolved for the current track, or None
  expIds,       \* per track handled so far: its source (None when play returned early)
  expOut,       \* per track finished so far: "ok", "fail" or "rejected"
  expStopAt,    \* tracks whose play had returned when stop was first issued during this playlist, -1 without a stop
  humans,       \* non-bot members in the bot's voice channel
  timers,       \* on_voice_state_update handlers in asyncio.sleep(5)
  stale,        \* how many of them (the oldest) have slept while a human was in the channel
  volume,       \* MusicQueue.volume, in percent
  srcVol,       \* per source: its PCMVolumeTransformer volume, in percent
  last          \* name of the last handler segment that ran

vars == <<pending, current, loop, processing, connected, streaming, held,
          tasks, resolving, nextId, expPc, expLen, expCur, expIds, expOut,
          expStopAt, humans, timers, stale, volume, srcVol, last>>

queueVars == <<pending, current, loop, processing>>
expVars == <<expPc, expLen, expCur, expIds, expOut, expStopAt>>

\* ---- helpers ----
InSeq(h, q) == \E i \in DOMAIN q : q[i] = h

\* deque.popleft: the element returned and the deque left behind
PopleftItem(q) == Head(q)
\* (the front is read and left in place)
PopleftRestKeep(q) == q
PopleftRest(q) == Tail(q)

\* (the loop flag is ignored)
LoopReinsertNever(q, cur, lp) == q
\* play_next, lines 308-309: queue.queue.appendleft(queue.current)
LoopReinsert(q, cur, lp) ==
  IF lp /\ cur # None THEN <<cur>> \o q ELSE q

\* VoiceClient.play succeeds only when connected and not already playing
CanStart(conn, str) == conn /\ str = None

\* room for the play_next task that ending the stream str creates
TaskRoom(ts, str) == str = None \/ Len(ts) < MaxTasks

\* the stream after voice_client.play(source, ...) at line 287
StartResult(conn, str, h) == IF CanStart(conn, str) THEN h ELSE str

\* voice_client.source after play was asked to start a source: the new
\* player's source when play succeeded (str2 is the stream afterwards)
HeldAfterStart(hd, str, str2) == IF str2 # str THEN str2 ELSE hd

\* the after callback of line 289 on a stream that ended without error:
\* create_task(self.play_next(ctx)).  A task is noted with the source whose
\* stream ended and with what ended it: "end", "stop", "skip", "skip_loop"
\* (a skip with loop on) or "disconnect"
AfterCallback(ts, str, cause) ==
  IF str = None THEN ts
  ELSE Append(ts, [h |-> str, cause |-> cause])

\* play_song, lines 284-292: current is assigned, then the voice client is
\* asked to play; raised tells that play() raised
PlaySong(q, conn, str, h) ==
  [pending |-> q, current |-> h, streaming |-> StartResult(conn, str, h),
   raised |-> ~CanStart(conn, str)]

\* play_next, lines 304-313
PlayNext(q, cur, lp, conn, str) ==
  LET q1 == LoopReinsert(q, cur, lp) IN
  IF q1 # <<>>
  THEN PlaySong(PopleftRest(q1), conn, str, PopleftItem(q1))
  ELSE [pending |-> q1, current |-> cur, streaming |-> str, raised |-> FALSE]

Init ==
  /\ pending = <<>>
  /\ current = None
  /\ loop = FALSE
  /\ processing = TRUE
  /\ connected = FALSE
  /\ streaming = None
  /\ held = None
  /\ tasks = <<>>
  /\ resolving = {}
  /\ nextId = 1
  /\ expPc = "idle"
  /\ expLen = 0
  /\ expCur = None
  /\ expIds = <<>>
  /\ expOut = <<>>
  /\ expStopAt = -1
  /\ humans = 1
  /\ timers = 0
  /\ stale = 0
  /\ volume = DefaultVolume
  /\ srcVol = [h \in Handles |-> DefaultVolume]
  /\ last = "init"

\* ---- Music.play, a search term or YouTube URL ----

\* lines 245-246: the author is not in a voice channel (in the first the
\* check comes after the reset of processing at lines 248-249)
PlayRejectedLate ==
  /\ processing' = TRUE
  /\ last' = "no_voice"
  /\ UNCHANGED <<pending, current, loop, connected, streaming, held, tasks,
                 resolving, nextId, expVars, humans, timers, stale, volume,
                 srcVol>>
PlayRejected ==
  /\ last' = "no_voice"
  /\ UNCHANGED <<queueVars, connected, streaming, held, tasks, resolving,
               nextId, expVars, humans, timers, stale, volume, srcVol>>

\* the humans in the bot's channel once it is in the channel of the author
\* of a play command (lines 245 and 257-260): the author is one of them;
\* the others come and go by voice state updates
AuthorPresent(n) == IF n = 0 THEN 1 ELSE n

\* lines 248-263: processing is reset, the bot joins the author's channel
\* and create_source is awaited
PlayStart ==
  /\ nextId <= MaxTracks
  /\ processing' = TRUE
  /\ connected' = TRUE
  /\ humans' = AuthorPresent(humans)
  /\ resolving' = resolving \cup {nextId}
  /\ nextId' = nextId + 1
  /\ last' = "play"
  /\ stale' = timers
  /\ UNCHANGED <<pending, current, loop, streaming, held, tasks, expVars,
                 timers, volume, srcVol>>

\* lines 265-277 with the source h: append when playing, else play_song;
\* ctx.voice_client is None after a disconnect and line 265 raises
Enqueue(h) ==
  IF ~connected
  THEN /\ last' = "enqueue_error"
       /\ UNCHANGED <<pending, current, streaming, held>>
  ELSE IF streaming # None
  THEN /\ pending' = Append(pending, h)
       /\ last' = "added"
       /\ UNCHANGED <<current, streaming, held>>
  ELSE LET r == PlaySong(pending, connected, streaming, h) IN
       /\ pending' = r.pending
       /\ current' = r.current
       /\ streaming' = r.streaming
       /\ held' = HeldAfterStart(held, streaming, r.streaming)
       /\ last' = "started"

\* the outcome recorded for a playlist track whose source was resolved
EnqueueOutcome == IF connected THEN "ok" ELSE "fail"

\* create_source returned for a play command
ResolveOk(h) ==
  /\ h \in resolving
  /\ h # expCur
  /\ resolving' = resolving \ {h}
  /\ Enqueue(h)
  /\ UNCHANGED <<loop, processing, connected, tasks, nextId, expVars, humans,
               timers, stale, volume, srcVol>>

\* create_source raised: lines 279-280
ResolveFail(h) ==
  /\ h \in resolving
  /\ h # expCur
  /\ resolving' = resolving \ {h}
  /\ last' = "resolve_failed"
  /\ UNCHANGED <<queueVars, connected, streaming, held, tasks, nextId, expVars,
               humans, timers, stale, volume, srcVol>>

\* ---- the voice client's player thread ----

\* the stream ends by itself: after(None) schedules play_next (line 289-290)
PlayerFinish ==
  /\ streaming # None
  /\ TaskRoom(tasks, streaming)
  /\ tasks' = AfterCallback(tasks, streaming, "end")
  /\ streaming' = None
  /\ last' = "finish"
  /\ UNCHANGED <<queueVars, held, connected, resolving, nextId, expVars, humans,
               timers, stale, volume, srcVol>>

\* the stream ends with an error: after(e) schedules ctx.send(f"Error: {e}")
\* and not play_next (line 290)
PlayerError ==
  /\ streaming # None
  /\ streaming' = None
  /\ last' = "playback_error"
  /\ UNCHANGED <<queueVars, held, connected, tasks, resolving, nextId, expVars,
               humans, timers, stale, volume, srcVol>>

\* the oldest play_next task runs: lines 304-313
PlayNextTask ==
  /\ tasks # <<>>
  /\ LET r == PlayNext(pending, current, loop, connected, streaming) IN
       /\ pending' = r.pending
       /\ current' = r.current
       /\ streaming' = r.streaming
       /\ held' = HeldAfterStart(held, streaming, r.streaming)
  /\ tasks' = Tail(tasks)
  /\ last' = IF loop /\ current # None THEN "play_next_loop" ELSE "play_next"
  /\ UNCHANGED <<loop, processing, connected, resolving, nextId, expVars,
               humans, timers, stale, volume, srcVol>>

\* ---- the other commands ----

\* Music.skip, lines 396-411
SkipRejected ==
  /\ ~connected \/ streaming = None
  /\ last' = "skip_rejected"
  /\ UNCHANGED <<queueVars, connected, streaming, held, tasks, resolving,
               nextId, expVars, humans, timers, stale, volume, srcVol>>

Skip ==
  /\ connected /\ streaming # None
  /\ TaskRoom(tasks, streaming)
  /\ tasks' = AfterCallback(tasks, streaming, IF loop THEN "skip_loop" ELSE "skip")
  /\ IF pending # <<>>
     THEN LET r == PlayNext(pending, current, loop, connected, None) IN
            /\ pending' = r.pending
            /\ current' = r.current
            /\ streaming' = r.streaming
            /\ held' = HeldAfterStart(None, None, r.streaming)
     ELSE /\ current' = None
          /\ streaming' = None
          /\ held' = None
          /\ UNCHANGED <<pending>>
  /\ last' = "skip"
  /\ UNCHANGED <<loop, processing, connected, resolving, nextId, expVars,
               humans, timers, stale, volume, srcVol>>

\* Music.stop, lines 376-383
Stop ==
  /\ TaskRoom(tasks, streaming)
  /\ processing' = FALSE
  /\ pending' = <<>>
  /\ IF connected
     THEN /\ tasks' = AfterCallback(tasks, streaming, "stop")
          /\ streaming' = None
          /\ held' = None
     ELSE UNCHANGED <<tasks, streaming, held>>
  /\ expStopAt' = IF expPc # "idle" /\ expStopAt = -1 THEN Len(expOut)
                  ELSE expStopAt
  /\ last' = "stop"
  /\ UNCHANGED <<current, loop, connected, resolving, nextId, expPc, expLen,
               expCur, expIds, expOut, humans, timers, stale, volume, srcVol>>

\* Music.clear, lines 369-373 (the first forgets the current track too)
ClearAll ==
  /\ pending' = <<>>
  /\ current' = None
  /\ last' = "clear"
  /\ UNCHANGED <<loop, processing, connected, streaming, held, tasks,
                 resolving, nextId, expVars, humans, timers, stale, volume,
                 srcVol>>
Clear ==
  /\ pending' = <<>>
  /\ last' = "clear"
  /\ UNCHANGED <<current, loop, processing, connected, streaming, held, tasks,
               resolving, nextId, expVars, humans, timers, stale, volume,
               srcVol>>

\* Music.toggle_loop, lines 350-354
ToggleLoop ==
  /\ loop' = ~loop
  /\ last' = "loop"
  /\ UNCHANGED <<pending, current, processing, connected, streaming, held,
               tasks, resolving, nextId, expVars, humans, timers, stale,
               volume, srcVol>>

\* VoiceClient.disconnect: the stream is stopped and the client dropped
Teardown ==
  /\ TaskRoom(tasks, streaming)
  /\ tasks' = AfterCallback(tasks, streaming, "disconnect")
  /\ streaming' = None
  /\ held' = None
  /\ connected' = FALSE

\* Music.disconnect, lines 386-393
Disconnect ==
  /\ processing' = FALSE
  /\ pending' = <<>>
  /\ IF connected THEN Teardown ELSE UNCHANGED <<tasks, streaming, held, connected>>
  /\ last' = "disconnect"
  /\ UNCHANGED <<current, loop, resolving, nextId, expVars, humans, timers,
               stale, volume, srcVol>>

\* ---- Music.volume ----

\* line 359: the range check (its lower bound is dropped in the first)
VolumeValidNoFloor(p) == p <= MaxVolume
VolumeValid(p) == MinVolume <= p /\ p <= MaxVolume

\* Music.volume, lines 357-366, with the argument p: the volume of the
\* voice client's source is set when there is one; MusicQueue.volume is
\* not written
SetVolume(p) ==
  /\ IF ~VolumeValid(p)
     THEN /\ last' = "volume_rejected"
          /\ UNCHANGED srcVol
     ELSE IF connected /\ held # None
     THEN /\ srcVol' = [srcVol EXCEPT ![held] = p]
          /\ last' = "volume_set"
     ELSE /\ last' = "volume_idle"
          /\ UNCHANGED srcVol
  /\ UNCHANGED <<queueVars, volume, connected, streaming, held, tasks,
                 resolving, nextId, expVars, humans, timers, stale>>

\* ---- MusicBot.on_voice_state_update ----

\* lines 107-119: a member's voice state changes, leaving n non-bot members
\* in the bot's channel; with none left the handler goes to sleep
VoiceStateUpdate(n) ==
  /\ humans' = n
  /\ IF connected /\ n = 0
     THEN /\ timers < MaxTimers
          /\ timers' = timers + 1
     ELSE UNCHANGED timers
  /\ stale' = IF n > 0 THEN timers ELSE stale
  /\ last' = "voice_state"
  /\ UNCHANGED <<queueVars, connected, streaming, held, tasks, resolving,
               nextId, expVars, volume, srcVol>>

\* lines 121-131: a sleeping handler wakes and counts again
GraceExpired ==
  /\ timers > 0
  /\ timers' = timers - 1
  /\ stale' = IF stale > 0 THEN stale - 1 ELSE 0
  /\ IF humans = 0
     THEN /\ processing' = FALSE
          /\ pending' = <<>>
          /\ IF connected THEN Teardown
             ELSE UNCHANGED <<tasks, streaming, held, connected>>
          /\ last' = (IF connected THEN "auto_disconnect" ELSE "auto_disconnect_error")
     ELSE /\ last' = "grace_cancelled"
          /\ UNCHANGED <<processing, pending, tasks, streaming, held, connected>>
  /\ UNCHANGED <<current, loop, resolving, nextId, expVars, humans, volume,
               srcVol>>

\* ---- Music.play with a Spotify URL: process_spotify_url ----

\* play of one playlist track up to its create_source call (lines 245-263,
\* entered from line 226 or 234)
TrackCall ==
  /\ nextId <= MaxTracks
  /\ processing' = TRUE
  /\ connected' = TRUE
  /\ humans' = AuthorPresent(humans)
  /\ resolving' = resolving \cup {nextId}
  /\ expCur' = nextId
  /\ expIds' = Append(expIds, nextId)
  /\ expPc' = "resolving"
  /\ nextId' = nextId + 1
  /\ stale' = timers
  /\ last' = "play"

\* lines 248-253 and 211-234 up to the first await that suspends: the
\* playlist of n tracks is fetched and play is entered for its first track
ExpandStart(n) ==
  /\ expPc = "idle"
  /\ expLen' = n
  /\ expStopAt' = -1
  /\ IF n = 0
     THEN /\ processing' = TRUE
          /\ expIds' = <<>>
          /\ expPc' = "idle"
          /\ expCur' = None
          /\ last' = "expand_done"
          /\ UNCHANGED <<connected, humans, resolving, nextId, stale>>
     ELSE /\ nextId <= MaxTracks
          /\ stale' = timers
          /\ processing' = TRUE
          /\ connected' = TRUE
          /\ humans' = AuthorPresent(humans)
          /\ resolving' = resolving \cup {nextId}
          /\ expCur' = nextId
          /\ expIds' = <<nextId>>
          /\ expPc' = "resolving"
          /\ nextId' = nextId + 1
          /\ last' = "play"
  /\ expOut' = <<>>
  /\ UNCHANGED <<pending, current, loop, streaming, held, tasks, timers,
                 volume, srcVol>>

\* create_source returned for the playlist track being resolved
ExpResolveOk ==
  /\ expPc = "resolving"
  /\ expCur \in resolving
  /\ resolving' = resolving \ {expCur}
  /\ Enqueue(expCur)
  /\ expOut' = Append(expOut, EnqueueOutcome)
  /\ expCur' = None
  /\ expPc' = "sent"
  /\ UNCHANGED <<loop, processing, connected, tasks, nextId, expLen, expIds,
               expStopAt, humans, timers, stale, volume, srcVol>>

\* (the exception leaves play and ends process_spotify_url at line 239)
ExpResolveFailAborts ==
  /\ expPc = "resolving"
  /\ expCur \in resolving
  /\ resolving' = resolving \ {expCur}
  /\ expOut' = Append(expOut, "fail")
  /\ expCur' = None
  /\ expPc' = "idle"
  /\ last' = "resolve_failed"
  /\ UNCHANGED <<queueVars, connected, streaming, held, tasks, nextId, expLen,
               expIds, expStopAt, humans, timers, stale, volume, srcVol>>

\* create_source raised for the playlist track being resolved: play catches
\* it (lines 279-280) and returns to the loop
ExpResolveFail ==
  /\ expPc = "resolving"
  /\ expCur \in resolving
  /\ resolving' = resolving \ {expCur}
  /\ expOut' = Append(expOut, "fail")
  /\ expCur' = None
  /\ expPc' = "sent"
  /\ last' = "resolve_failed"
  /\ UNCHANGED <<queueVars, connected, streaming, held, tasks, nextId, expLen,
               expIds, expStopAt, humans, timers, stale, volume, srcVol>>

\* the for loop of lines 222-226 / 230-234 after a track's play returned
ExpNext ==
  /\ expPc = "sent"
  /\ IF Len(expIds) >= expLen
     THEN /\ expPc' = "idle"
          /\ last' = "expand_done"
          /\ UNCHANGED <<processing, connected, humans, resolving, nextId,
                         expCur, expIds, expOut, stale>>
     ELSE IF ~processing
     THEN /\ expPc' = "idle"
          /\ last' = "expand_stopped"
          /\ UNCHANGED <<processing, connected, humans, resolving, nextId,
                         expCur, expIds, expOut, stale>>
     ELSE \/ /\ TrackCall
             /\ UNCHANGED expOut
          \/ /\ expIds' = Append(expIds, None)
             /\ expOut' = Append(expOut, "rejected")
             /\ last' = "no_voice"
             /\ UNCHANGED <<processing, connected, humans, resolving, nextId,
                            expCur, expPc, stale>>
  /\ UNCHANGED <<pending, current, loop, streaming, held, tasks, expLen,
                 expStopAt, timers, volume, srcVol>>

\* the queue and the player: the commands, the resolutions and the play_next
\* tasks
QueueNext ==
  \/ PlayRejected
  \/ PlayStart
  \/ \E h \in Handles : ResolveOk(h)
  \/ \E h \in Handles : ResolveFail(h)
  \/ PlayerFinish
  \/ PlayerError
  \/ PlayNextTask
  \/ SkipRejected
  \/ Skip
  \/ Stop
  \/ Clear
  \/ ToggleLoop
  \/ Disconnect

\* a Spotify playlist being processed, beside the commands that touch
\* processing and the queue
ExpandNext ==
  \/ \E n \in 0..MaxExpLen : ExpandStart(n)
  \/ ExpResolveOk
  \/ ExpResolveFail
  \/ ExpNext
  \/ PlayStart
  \/ \E h \in Handles : ResolveOk(h)
  \/ PlayerFinish
  \/ PlayNextTask
  \/ Stop
  \/ Disconnect

\* the auto-disconnect handler, beside play and the player
IdleNext ==
  \/ \E n \in 0..MaxHumans : VoiceStateUpdate(n)
  \/ GraceExpired
  \/ PlayStart
  \/ \E h \in Handles : ResolveOk(h)
  \/ PlayerFinish
  \/ PlayNextTask
  \/ Disconnect

\* the volume command, beside play, the player and stop
VolumeNext ==
  \/ \E p \in VolumeInputs : SetVolume(p)
  \/ PlayStart
  \/ \E h \in Handles : ResolveOk(h)
  \/ PlayerFinish
  \/ PlayNextTask
  \/ Stop

Next == QueueNext \/ ExpandNext \/ IdleNext \/ VolumeNext

Spec == Init /\ [][Next]_vars
QueueSpec == Init /\ [][QueueNext]_vars
ExpandSpec == Init /\ [][ExpandNext]_vars
IdleSpec == Init /\ [][IdleNext]_vars
VolumeSpec == Init /\ [][VolumeNext]_vars

\* ---- properties ----

ExpReached(out) == {i \in DOMAIN out : out[i] = "ok"}

\* C1: in every reachable state, current is none or one source, and that
\* source is not in the queue
C1_CurrentNotPending ==
  /\ current \in Handles \cup {None}
  /\ ~InSeq(current, pending)

\* a play_next task has just put the looping source back and started a
\* source, with more sources waiting
C1_Witness ==
  /\ last = "play_next_loop"
  /\ current # None
  /\ pending # <<>>

\* C2: a skip with loop on never puts the skipped source back: once the
\* play_next task created by that skip has run, the skipped source is
\* neither current nor in the queue
C2_SkipNeverReinserts ==
  [][(PlayNextTask /\ Head(tasks).cause = "skip_loop")
       => (current' # Head(tasks).h /\ ~InSeq(Head(tasks).h, pending'))]_vars

\* C3: once the play_next task created by a stop has run, the room is idle:
\* no current source, an empty queue, nothing streaming
C3_StopLeadsToIdle ==
  [][(PlayNextTask /\ Head(tasks).cause = "stop")
       => (current' = None /\ pending' = <<>> /\ streaming' = None)]_vars

\* C4: the play_next task of a stream that ended by itself, with loop off
\* and a non-empty queue, makes the front of the queue current, removes it
\* from the queue, starts it on the voice client and keeps the rest in order
C4_FifoAdvance ==
  [][(PlayNextTask /\ Head(tasks).cause = "end" /\ ~loop /\ pending # <<>>)
       => (/\ current' = Head(pending)
           /\ pending' = Tail(pending)
           /\ streaming' = Head(pending))]_vars

\* C5: after a play_next task found the queue empty, nothing streaming and
\* no task left, current is none
C5_IdleHasNoCurrent ==
  (last \in {"play_next", "play_next_loop"} /\ streaming = None /\ tasks = <<>>)
    => current = None

\* C6: a stream that ended with an error still advances the queue: with
\* sources waiting, a play_next is scheduled
C6_ErrorStillAdvances ==
  (last = "playback_error" /\ pending # <<>>) => tasks # <<>>

\* C7: with loop on, the play_next task of a stream that ended by itself,
\* for the source that is still current and with an empty queue, leaves that
\* source current and the queue empty, and the voice client streams it again
C7_LoopLaw ==
  [][(/\ PlayNextTask
      /\ loop
      /\ Head(tasks).cause = "end"
      /\ current = Head(tasks).h
      /\ pending = <<>>)
       => (/\ current' = current
           /\ pending' = <<>>
           /\ (connected => streaming' = current))]_vars

\* the only source has just been started again by a play_next task
C7_Witness ==
  /\ last = "play_next_loop"
  /\ pending = <<>>
  /\ tasks = <<>>
  /\ current # None
  /\ streaming = current

\* C8: a stop issued during a playlist after k of its tracks were handled
\* lets exactly those k reach the queue: no later track becomes current or
\* queued
C8_StopAfterK ==
  expStopAt >= 1 => \A i \in ExpReached(expOut) : i <= expStopAt

\* C9: a track whose resolution fails does not end the playlist: every
\* track's play returns to the loop, the loop ends only at the end of the
\* playlist or on a cleared processing flag, a failure is reported once and
\* leaves the queue alone, and a resolved track is started or appended at
\* the tail
C9_FailureDoesNotAbort ==
  [][/\ (expPc = "resolving" /\ expPc' # "resolving")
          => (expPc' = "sent" /\ Len(expOut') = Len(expOut) + 1)
     /\ (expPc # "idle" /\ expPc' = "idle")
          => (Len(expIds) >= expLen \/ ~processing)
     /\ ExpResolveFail
          => (/\ UNCHANGED <<pending, current, streaming>>
              /\ last' = "resolve_failed"
              /\ expOut' = Append(expOut, "fail"))
     /\ (ExpResolveOk /\ connected)
          => (/\ last' \in {"started", "added"}
              /\ last' = "started" => current' = expCur
              /\ last' = "added" => pending' = Append(pending, expCur))
    ]_vars

\* a playlist of three tracks whose second failed: the first is current and
\* the third is queued
C9_Witness ==
  /\ Len(expOut) >= 3
  /\ SubSeq(expOut, 1, 3) = <<"ok", "fail", "ok">>
  /\ current = expIds[1]
  /\ pending = <<expIds[3]>>

\* C10: at most one auto-disconnect handler is asleep at a time
C10_OneTimer == timers <= 1

\* C11: a handler that slept while a human was back in the channel tears
\* nothing down when it wakes
C11_ReturnCancels ==
  [][(GraceExpired /\ stale > 0)
       => UNCHANGED <<processing, pending, connected, streaming>>]_vars

\* the room is idle: nothing streams and no play_next task is waiting
Idle == streaming = None /\ tasks = <<>>

\* C12: a resolved source is started at once (it becomes current, the queue
\* is left alone) exactly when the room is idle; when a source is
\* streaming it is appended to the tail of the queue and current is kept
C12_StartIffIdle ==
  [][\A h \in Handles :
       (ResolveOk(h) /\ connected)
         => (/\ (last' = "started") <=> Idle
             /\ (last' = "started")
                  => (current' = h /\ pending' = pending /\ streaming' = h)
             /\ (streaming # None)
                  => (/\ last' = "added"
                      /\ pending' = Append(pending, h)
                      /\ current' = current))]_vars

\* C13: a volume command within 0..200 stores its argument as the room's
\* volume, and a source that streams is played at it
C13_VolumeStored ==
  [][\A p \in VolumeInputs :
       (SetVolume(p) /\ VolumeValid(p))
         => (volume' = p /\ (streaming # None => srcVol'[streaming] = p))]_vars

\* C14: a volume command outside 0..200 is refused and changes nothing
C14_BadVolumeNoChange ==
  [][\A p \in VolumeInputs :
       (SetVolume(p) /\ (p < MinVolume \/ p > MaxVolume))
         => (/\ last' = "volume_rejected"
             /\ UNCHANGED <<pending, current, loop, volume, processing,
                            srcVol, streaming, held>>)]_vars

\* a volume command was refused while a source streamed at a volume set
\* before
C14_Witness ==
  /\ last = "volume_rejected"
  /\ streaming # None
  /\ srcVol[streaming] # DefaultVolume

\* C15: a play command from an author outside any voice channel, and a skip
\* while nothing plays, only report: the queue, current, loop, the volume,
\* processing and the player are left as they were
C15_RejectedNoChange ==
  [][(PlayRejected \/ SkipRejected)
       => (/\ last' \in {"no_voice", "skip_rejected"}
           /\ UNCHANGED <<pending, current, loop, volume, processing,
                          connected, streaming, held, srcVol, tasks>>)]_vars

\* a play command was refused after a stop, with a track still current
C15_Witness ==
  /\ last = "no_voice"
  /\ ~processing
  /\ current # None

\* C16: clear empties the queue and nothing else: current, the stream, loop,
\* the volume and processing are kept, the current track keeps playing
C16_ClearPendingOnly ==
  [][Clear
       => (/\ pending' = <<>>
           /\ UNCHANGED <<current, loop, volume, processing, connected,
                          streaming, held, srcVol, tasks>>)]_vars

\* the queue was cleared while the current track was streaming
C16_Witness ==
  /\ last = "clear"
  /\ streaming # None
  /\ current = streaming
  /\ pending = <<>>

\* C17: while a play command is under way (processing set, its source not
\* yet started or appended), no other play, skip, stop or play_next step
\* changes the queue, current or processing
C17_Serialized ==
  [][(resolving # {} /\ (PlayStart \/ Skip \/ Stop \/ PlayNextTask))
       => UNCHANGED <<pending, current, processing>>]_vars

\* C18: whenever a source is streaming, current is that source
C18_CurrentIsStreaming == streaming # None => current = streaming

\* C19: a handle that skip or a play_next task takes off the queue is the
\* one streamed afterwards
C19_PoppedIsStreamed ==
  [][((Skip \/ PlayNextTask) /\ Len(pending') < Len(pending))
       => streaming' = Head(pending)]_vars

\* C20: the queue is never non-empty while nothing streams and no play_next
\* task is waiting
C20_NeverStuck == ~(Idle /\ pending # <<>>)

====
